---- MODULE Spec2Model ----
(***************************************************************************)
(* Order lifecycle of src/horeca_technologies.py: the Order model with its *)
(* django-fsm transitions, OrderItem.save, and the OrderViewSet actions    *)
(* that run a transition and persist it inside transaction.atomic.         *)
(*                                                                         *)
(* One order is modelled.  The committed database state is the order row   *)
(* (status, dereservation_at), its item rows, its delivery rows and the    *)
(* number of its financial transactions.  A request loads the order into   *)
(* an in-memory instance, runs a transition on the instance (the queries   *)
(* of the transition body act on the rows), and saves the instance fields  *)
(* named in update_fields back to the row.                                 *)
(***************************************************************************)
EXTENDS Integers, FiniteSets, Sequences, TLC

\* ---------------------------------------------------------------- bounds
MaxRows == 2          \* deliveries plus offers of the order
MaxAmount == 1        \* item amounts are 0..MaxAmount
MaxPrice == 2         \* unit prices are 1..MaxPrice
MaxVat == 1           \* vat rates are 0..MaxVat
MaxTime == 1          \* the clock runs 0..MaxTime (hours)
MaxTransactions == 1  \* financial transactions tied to the order
MaxItems == 73        \* items of an exported order (page layout)
MaxPricedItems == 2   \* items of an exported order (totals)
MaxExportPrice == 23  \* exported prices are 1..MaxExportPrice, in 0.01
MaxExportAmount == 10 \* exported amounts are 0..MaxExportAmount, in 0.001

\* ------------------------------------------------------- program constants
NULL == -1            \* None of a nullable DateTimeField
HOUR == 1             \* timedelta(hours=1), in clock units
PAGE_SIZE == 44          \* FreshLogicExporter.PAGE_SIZE
ENDING_ROW_PADDING == 6  \* FreshLogicExporter.ENDING_ROW_PADDING
TABLE_ROW == 14          \* FreshLogicExporter.TABLE_ROW

STATUSES ==
    {"DRAFT", "RESERVED", "CONFIRMED", "PAID", "IN_PROGRESS", "CANCELED", "DELETED"}

STOCK_RESERVED_STATUSES == {"CONFIRMED", "IN_PROGRESS", "PAID"}

EDITABLE_STATUSES == {"DRAFT", "RESERVED"}

ItemStatuses == {"NEW", "ACCEPT", "REJECT", "RESERVE"}

\* The Delivery statuses the file names, and NEW for any status it does not name.
DeliveryStatuses == {"NEW", "FACT", "SHIPPED", "PAID", "CANCELED", "DELETED"}

\* The source sets with mark_draft also declared from CONFIRMED.
SOURCE_draft_from_confirmed ==
    [ mark_reserved  |-> {"DRAFT"},
      mark_draft     |-> {"RESERVED", "CONFIRMED"},
      make_confirmed |-> {"DRAFT", "RESERVED"},
      mark_paid      |-> {"CONFIRMED"},
      mark_canceled  |-> {"PAID", "CONFIRMED", "IN_PROGRESS"},
      mark_deleted   |-> {"DRAFT", "RESERVED"} ]

\* The source sets and targets declared by the @transition decorators.
SOURCE ==
    [ mark_reserved  |-> {"DRAFT"},
      mark_draft     |-> {"RESERVED"},
      make_confirmed |-> {"DRAFT", "RESERVED"},
      mark_paid      |-> {"CONFIRMED"},
      mark_canceled  |-> {"PAID", "CONFIRMED", "IN_PROGRESS"},
      mark_deleted   |-> {"DRAFT", "RESERVED"} ]

\* The targets with mark_paid leading to IN_PROGRESS.
TARGET_paid_in_progress ==
    [ mark_reserved  |-> "RESERVED",
      mark_draft     |-> "DRAFT",
      make_confirmed |-> "CONFIRMED",
      mark_paid      |-> "IN_PROGRESS",
      mark_canceled  |-> "CANCELED",
      mark_deleted   |-> "DELETED" ]

TARGET ==
    [ mark_reserved  |-> "RESERVED",
      mark_draft     |-> "DRAFT",
      make_confirmed |-> "CONFIRMED",
      mark_paid      |-> "PAID",
      mark_canceled  |-> "CANCELED",
      mark_deleted   |-> "DELETED" ]

TransitionNames == DOMAIN SOURCE

Amounts == 0..MaxAmount
Prices == 1..MaxPrice
Vats == 0..MaxVat
ItemFields == {"amount", "status", "price", "vat", "sum", "vat_sum"}
Requests == {1, 2}

VARIABLES
    now,               \* the clock, timezone.now()
    status,            \* product_order.status of the order row
    dereservation_at,  \* product_order.dereservation_at of the order row
    items,             \* product_order_item rows of the order, by offer
    deliveries,        \* delivery rows of the order: id -> status
    transactions,      \* number of BatchTransaction rows tied to the order
    offers,            \* the offers the order can hold an item of
    last,              \* the last operation: its name, inputs, outcome and the
                       \* database before it (of an item save: but the item rows,
                       \* last.save holding the loaded sum and vat_sum)
    reqs,              \* API requests in flight (concurrent specification)
    xw                 \* an export_draft_order call: its position, the items it
                       \* iterates, its locals and what it wrote to the XlsxWriter

vars == <<now, status, dereservation_at, items, deliveries, transactions, offers, last, reqs,
          xw>>

\* ------------------------------------------------------------ the database
DB ==
    [ status           |-> status,
      dereservation_at |-> dereservation_at,
      items            |-> items,
      deliveries       |-> deliveries,
      transactions     |-> transactions ]

\* The rows a unit of work holds, as a database state.
RowsOf(w) ==
    [ status           |-> w.row.status,
      dereservation_at |-> w.row.dereservation_at,
      items            |-> w.items,
      deliveries       |-> w.deliveries,
      transactions     |-> w.transactions ]

\* A unit of work on database state d with the order instance holding the
\* given field values: the instance (status, dereservation_at), the order
\* row, the related rows, and the order fields written so far.
World(d, inst_status, inst_dereservation_at) ==
    [ status           |-> inst_status,
      dereservation_at |-> inst_dereservation_at,
      row              |-> [status |-> d.status, dereservation_at |-> d.dereservation_at],
      items            |-> d.items,
      deliveries       |-> d.deliveries,
      transactions     |-> d.transactions,
      order_fields     |-> {} ]

\* self.get_object(): the instance is read from the committed row.
get_object(d) == World(d, d.status, d.dereservation_at)

Return(w) == [w |-> w, exc |-> "none"]
Raise(w, e) == [w |-> w, exc |-> e]

\* The catalogue price and vat of an offer.
OfferPrice(i) == 1 + (i % MaxPrice)
OfferVat(i) == i % (MaxVat + 1)

\* --------------------------------------------------------------- Order
\* Order.get_new_dereservation_time
get_new_dereservation_time == now + HOUR

\* Order.save that passes update_fields on as given.
Order_save_as_given(w, update_fields) ==
    [w EXCEPT
        !.row = [ status |->
                      IF "status" \in update_fields THEN w.status ELSE w.row.status,
                  dereservation_at |->
                      IF "dereservation_at" \in update_fields
                      THEN w.dereservation_at ELSE w.row.dereservation_at ],
        !.order_fields = @ \cup update_fields]

\* Order.save(update_fields=...): status_updated_at joins the given fields,
\* and the named instance fields are written to the order row.
Order_save(w, update_fields) ==
    LET fields == IF update_fields # {} /\ "status_updated_at" \notin update_fields
                  THEN update_fields \cup {"status_updated_at"}
                  ELSE update_fields
    IN  [w EXCEPT
            !.row = [ status |->
                          IF "status" \in fields THEN w.status ELSE w.row.status,
                      dereservation_at |->
                          IF "dereservation_at" \in fields
                          THEN w.dereservation_at ELSE w.row.dereservation_at ],
            !.order_fields = @ \cup fields]

\* _is_cancelable that looks for FACT deliveries only.
is_cancelable_fact_only(w) ==
    ~ \E d \in DOMAIN w.deliveries : w.deliveries[d] \in {"FACT"}

\* Order._is_cancelable
is_cancelable(w) ==
    ~ \E d \in DOMAIN w.deliveries : w.deliveries[d] \in {"FACT", "SHIPPED"}

\* ----------------------------------------------------------- OrderItem
\* FieldSetterMixin.set_sum / set_vat_sum: sum from price and amount,
\* vat_sum from the sum and the vat rate.
set_sum(obj) == obj.price * obj.amount
set_vat_sum(obj) == obj.sum * obj.vat

\* OrderItem.update_price_and_vat: the item takes the offer's price and vat.
update_price_and_vat(obj, i) == [obj EXCEPT !.price = OfferPrice(i), !.vat = OfferVat(i)]

\* OrderItem.save with the vat_sum branch beside the price branch, not in it.
OrderItem_save_flat(w, i, obj, is_price_changed, is_vat_changed, update_fields) ==
    LET is_new == i \notin DOMAIN w.items
        reserved == w.status = "RESERVED"
        o1 == IF reserved /\ is_new THEN [obj EXCEPT !.status = "RESERVE"] ELSE obj
        w1 == IF reserved /\ w.dereservation_at # NULL
              THEN Order_save([w EXCEPT !.dereservation_at = get_new_dereservation_time],
                              {"dereservation_at"})
              ELSE w
        o2 == IF is_price_changed THEN [o1 EXCEPT !.sum = set_sum(o1)] ELSE o1
        o3 == IF is_price_changed \/ is_vat_changed
              THEN [o2 EXCEPT !.vat_sum = set_vat_sum(o2)] ELSE o2
        add_update_fields ==
            (IF is_price_changed THEN {"sum"} ELSE {})
            \cup (IF is_price_changed \/ is_vat_changed THEN {"vat_sum"} ELSE {})
        fields == IF is_new THEN ItemFields ELSE update_fields \cup add_update_fields
        row == IF is_new THEN o3 ELSE w.items[i]
        stored == [ amount  |-> IF "amount" \in fields THEN o3.amount ELSE row.amount,
                    status  |-> IF "status" \in fields THEN o3.status ELSE row.status,
                    price   |-> IF "price" \in fields THEN o3.price ELSE row.price,
                    vat     |-> IF "vat" \in fields THEN o3.vat ELSE row.vat,
                    sum     |-> IF "sum" \in fields THEN o3.sum ELSE row.sum,
                    vat_sum |-> IF "vat_sum" \in fields THEN o3.vat_sum ELSE row.vat_sum ]
    IN  [ w |-> [w1 EXCEPT !.items =
                    [j \in DOMAIN w.items \cup {i} |-> IF j = i THEN stored ELSE w.items[j]]],
          obj |-> o3,
          add_update_fields |-> add_update_fields ]

\* OrderItem.save that forces RESERVE on every save under a RESERVED order.
OrderItem_save_always_reserve(w, i, obj, is_price_changed, is_vat_changed, update_fields) ==
    LET is_new == i \notin DOMAIN w.items
        reserved == w.status = "RESERVED"
        o1 == IF reserved THEN [obj EXCEPT !.status = "RESERVE"] ELSE obj
        w1 == IF reserved /\ w.dereservation_at # NULL
              THEN Order_save([w EXCEPT !.dereservation_at = get_new_dereservation_time],
                              {"dereservation_at"})
              ELSE w
        o2 == IF is_price_changed THEN [o1 EXCEPT !.sum = set_sum(o1)] ELSE o1
        o3 == IF is_price_changed /\ is_vat_changed
              THEN [o2 EXCEPT !.vat_sum = set_vat_sum(o2)] ELSE o2
        add_update_fields ==
            (IF is_price_changed THEN {"sum"} ELSE {})
            \cup (IF is_price_changed /\ is_vat_changed THEN {"vat_sum"} ELSE {})
        fields == IF is_new THEN ItemFields ELSE update_fields \cup add_update_fields
        row == IF is_new THEN o3 ELSE w.items[i]
        stored == [ amount  |-> IF "amount" \in fields THEN o3.amount ELSE row.amount,
                    status  |-> IF "status" \in fields THEN o3.status ELSE row.status,
                    price   |-> IF "price" \in fields THEN o3.price ELSE row.price,
                    vat     |-> IF "vat" \in fields THEN o3.vat ELSE row.vat,
                    sum     |-> IF "sum" \in fields THEN o3.sum ELSE row.sum,
                    vat_sum |-> IF "vat_sum" \in fields THEN o3.vat_sum ELSE row.vat_sum ]
    IN  [ w |-> [w1 EXCEPT !.items =
                    [j \in DOMAIN w.items \cup {i} |-> IF j = i THEN stored ELSE w.items[j]]],
          obj |-> o3,
          add_update_fields |-> add_update_fields ]

\* OrderItem.save whose vat_sum branch tests is_vat_changed on its own.
OrderItem_save_vat_apart(w, i, obj, is_price_changed, is_vat_changed, update_fields) ==
    LET is_new == i \notin DOMAIN w.items
        reserved == w.status = "RESERVED"
        o1 == IF reserved /\ is_new THEN [obj EXCEPT !.status = "RESERVE"] ELSE obj
        w1 == IF reserved /\ w.dereservation_at # NULL
              THEN Order_save([w EXCEPT !.dereservation_at = get_new_dereservation_time],
                              {"dereservation_at"})
              ELSE w
        o2 == IF is_price_changed THEN [o1 EXCEPT !.sum = set_sum(o1)] ELSE o1
        o3 == IF is_vat_changed
              THEN [o2 EXCEPT !.vat_sum = set_vat_sum(o2)] ELSE o2
        add_update_fields ==
            (IF is_price_changed THEN {"sum"} ELSE {})
            \cup (IF is_vat_changed THEN {"vat_sum"} ELSE {})
        fields == IF is_new THEN ItemFields ELSE update_fields \cup add_update_fields
        row == IF is_new THEN o3 ELSE w.items[i]
        stored == [ amount  |-> IF "amount" \in fields THEN o3.amount ELSE row.amount,
                    status  |-> IF "status" \in fields THEN o3.status ELSE row.status,
                    price   |-> IF "price" \in fields THEN o3.price ELSE row.price,
                    vat     |-> IF "vat" \in fields THEN o3.vat ELSE row.vat,
                    sum     |-> IF "sum" \in fields THEN o3.sum ELSE row.sum,
                    vat_sum |-> IF "vat_sum" \in fields THEN o3.vat_sum ELSE row.vat_sum ]
    IN  [ w |-> [w1 EXCEPT !.items =
                    [j \in DOMAIN w.items \cup {i} |-> IF j = i THEN stored ELSE w.items[j]]],
          obj |-> o3,
          add_update_fields |-> add_update_fields ]

\* OrderItem.save of the instance obj of item i; the instance is new when no
\* row of i exists.  update_fields = ItemFields stands for update_fields=None.
\* Gives the unit of work after the save and self.add_update_fields.
OrderItem_save(w, i, obj, is_price_changed, is_vat_changed, update_fields) ==
    LET is_new == i \notin DOMAIN w.items
        reserved == w.status = "RESERVED"
        o1 == IF reserved /\ is_new THEN [obj EXCEPT !.status = "RESERVE"] ELSE obj
        w1 == IF reserved /\ w.dereservation_at # NULL
              THEN Order_save([w EXCEPT !.dereservation_at = get_new_dereservation_time],
                              {"dereservation_at"})
              ELSE w
        o2 == IF is_price_changed THEN [o1 EXCEPT !.sum = set_sum(o1)] ELSE o1
        o3 == IF is_price_changed /\ is_vat_changed
              THEN [o2 EXCEPT !.vat_sum = set_vat_sum(o2)] ELSE o2
        add_update_fields ==
            (IF is_price_changed THEN {"sum"} ELSE {})
            \cup (IF is_price_changed /\ is_vat_changed THEN {"vat_sum"} ELSE {})
        fields == IF is_new THEN ItemFields ELSE update_fields \cup add_update_fields
        row == IF is_new THEN o3 ELSE w.items[i]
        stored == [ amount  |-> IF "amount" \in fields THEN o3.amount ELSE row.amount,
                    status  |-> IF "status" \in fields THEN o3.status ELSE row.status,
                    price   |-> IF "price" \in fields THEN o3.price ELSE row.price,
                    vat     |-> IF "vat" \in fields THEN o3.vat ELSE row.vat,
                    sum     |-> IF "sum" \in fields THEN o3.sum ELSE row.sum,
                    vat_sum |-> IF "vat_sum" \in fields THEN o3.vat_sum ELSE row.vat_sum ]
    IN  [ w |-> [w1 EXCEPT !.items =
                    [j \in DOMAIN w.items \cup {i} |-> IF j = i THEN stored ELSE w.items[j]]],
          obj |-> o3,
          add_update_fields |-> add_update_fields ]

\* ----------------------------------------------------- Order transitions
\* mark_reserved whose update reaches the NEW items only.
mark_reserved_new_only(w) ==
    IF w.status \notin SOURCE.mark_reserved THEN Raise(w, "TransitionNotAllowed")
    ELSE LET kept == {i \in DOMAIN w.items : w.items[i].amount # 0}
         IN  Return([w EXCEPT
                 !.items = [i \in kept |->
                              IF w.items[i].status = "NEW"
                              THEN [w.items[i] EXCEPT !.status = "RESERVE"]
                              ELSE w.items[i]],
                 !.dereservation_at = get_new_dereservation_time,
                 !.status = TARGET.mark_reserved])

\* @transition(status, DRAFT, RESERVED)
mark_reserved(w) ==
    IF w.status \notin SOURCE.mark_reserved THEN Raise(w, "TransitionNotAllowed")
    ELSE LET kept == {i \in DOMAIN w.items : w.items[i].amount # 0}
         IN  Return([w EXCEPT
                 !.items = [i \in kept |-> [w.items[i] EXCEPT !.status = "RESERVE"]],
                 !.dereservation_at = get_new_dereservation_time,
                 !.status = TARGET.mark_reserved])

\* mark_draft that leaves the dereservation time set.
mark_draft_keeps_timer(w) ==
    IF w.status \notin SOURCE.mark_draft THEN Raise(w, "TransitionNotAllowed")
    ELSE Return([w EXCEPT
             !.items = [i \in DOMAIN w.items |-> [w.items[i] EXCEPT !.status = "NEW"]],
             !.status = TARGET.mark_draft])

\* @transition(status, RESERVED, DRAFT)
mark_draft(w) ==
    IF w.status \notin SOURCE.mark_draft THEN Raise(w, "TransitionNotAllowed")
    ELSE Return([w EXCEPT
             !.dereservation_at = NULL,
             !.items = [i \in DOMAIN w.items |-> [w.items[i] EXCEPT !.status = "NEW"]],
             !.status = TARGET.mark_draft])

\* The loop of make_confirmed over self.items.all(), in id order.
RECURSIVE confirm_items(_, _)
confirm_items(w, ids) ==
    IF ids = {} THEN w
    ELSE LET i == CHOOSE x \in ids : \A y \in ids : x <= y
             loaded == w.items[i]
             obj == update_price_and_vat(loaded, i)
             saved == OrderItem_save(w, i, obj, obj.price # loaded.price,
                                     obj.vat # loaded.vat, {"price", "vat"})
         IN  confirm_items(saved.w, ids \ {i})

\* make_confirmed without the delete of the zero-amount items.
make_confirmed_keeps_zero(w) ==
    IF w.status \notin SOURCE.make_confirmed THEN Raise(w, "TransitionNotAllowed")
    ELSE Return([confirm_items(w, DOMAIN w.items) EXCEPT !.status = TARGET.make_confirmed])

\* @transition(status, (DRAFT, RESERVED), CONFIRMED)
make_confirmed(w) ==
    IF w.status \notin SOURCE.make_confirmed THEN Raise(w, "TransitionNotAllowed")
    ELSE LET kept == {i \in DOMAIN w.items : w.items[i].amount # 0}
             w1 == [w EXCEPT !.items = [i \in kept |-> w.items[i]]]
             w2 == confirm_items(w1, kept)
         IN  Return([w2 EXCEPT !.status = TARGET.make_confirmed])

\* mark_paid without the exclude of the canceled deliveries.
mark_paid_all(w) ==
    IF w.status \notin SOURCE.mark_paid THEN Raise(w, "TransitionNotAllowed")
    ELSE Return([w EXCEPT
             !.deliveries = [d \in DOMAIN w.deliveries |-> "PAID"],
             !.status = TARGET.mark_paid])

\* @transition(status, CONFIRMED, PAID)
mark_paid(w) ==
    IF w.status \notin SOURCE.mark_paid THEN Raise(w, "TransitionNotAllowed")
    ELSE Return([w EXCEPT
             !.deliveries = [d \in DOMAIN w.deliveries |->
                                IF w.deliveries[d] # "CANCELED" THEN "PAID"
                                ELSE w.deliveries[d]],
             !.status = TARGET.mark_paid])

\* Delivery.mark_canceled followed by delivery.save(update_fields=["status"]).
Delivery_mark_canceled(delivery_status) == "CANCELED"

\* @transition(status, (PAID, CONFIRMED, IN_PROGRESS), CANCELED)
mark_canceled(w) ==
    IF w.status \notin SOURCE.mark_canceled THEN Raise(w, "TransitionNotAllowed")
    ELSE IF ~ is_cancelable(w) THEN Raise(w, "TransitionNotAllowed")
    ELSE Return([w EXCEPT
             !.transactions = 0,
             !.deliveries = [d \in DOMAIN w.deliveries |->
                                Delivery_mark_canceled(w.deliveries[d])],
             !.status = TARGET.mark_canceled])

\* mark_deleted declared with CONFIRMED among its sources.
mark_deleted_from_confirmed(w) ==
    IF w.status \notin SOURCE.mark_deleted \cup {"CONFIRMED"}
    THEN Raise(w, "TransitionNotAllowed")
    ELSE Return([w EXCEPT
             !.deliveries = [d \in DOMAIN w.deliveries |-> "DELETED"],
             !.status = TARGET.mark_deleted])

\* @transition(status, (DRAFT, RESERVED), DELETED)
mark_deleted(w) ==
    IF w.status \notin SOURCE.mark_deleted THEN Raise(w, "TransitionNotAllowed")
    ELSE Return([w EXCEPT
             !.deliveries = [d \in DOMAIN w.deliveries |-> "DELETED"],
             !.status = TARGET.mark_deleted])

\* --------------------------------------------------------- OrderViewSet
\* @transaction.atomic: an exception leaving the block rolls the rows back
\* to what they were when the block was entered.
atomic(w0, r) ==
    IF r.exc # "none"
    THEN Raise([r.w EXCEPT !.row = w0.row, !.items = w0.items,
                           !.deliveries = w0.deliveries,
                           !.transactions = w0.transactions,
                           !.order_fields = w0.order_fields], r.exc)
    ELSE r

\* destroy without the except clause: TransitionNotAllowed leaves the view.
OrderViewSet_destroy_uncaught(w0) ==
    LET r == mark_deleted(w0)
    IN  atomic(w0, IF r.exc # "none" THEN r
                   ELSE Return(Order_save(r.w, {"status"})))

\* OrderViewSet.destroy
OrderViewSet_destroy(w0) ==
    LET r == mark_deleted(w0)
    IN  atomic(w0, IF r.exc = "TransitionNotAllowed"
                   THEN Raise(r.w, "ValidationError")
                   ELSE Return(Order_save(r.w, {"status"})))

\* cancel without instance.save(update_fields=["status"]).
OrderViewSet_cancel_no_save(w0) ==
    LET r == mark_canceled(w0)
    IN  atomic(w0, IF r.exc = "TransitionNotAllowed"
                   THEN Raise(r.w, "ValidationError")
                   ELSE Return(r.w))

\* OrderViewSet.cancel
OrderViewSet_cancel(w0) ==
    LET r == mark_canceled(w0)
    IN  atomic(w0, IF r.exc = "TransitionNotAllowed"
                   THEN Raise(r.w, "ValidationError")
                   ELSE Return(Order_save(r.w, {"status"})))

\* OrderViewSet.mark_reserved
OrderViewSet_mark_reserved(w0) ==
    LET r == mark_reserved(w0)
    IN  atomic(w0, IF r.exc # "none" THEN r
                   ELSE Return(Order_save(r.w, {"status", "dereservation_at"})))

\* OrderViewSet.confirm
OrderViewSet_confirm(w0) ==
    LET r == make_confirmed(w0)
    IN  atomic(w0, IF r.exc # "none" THEN r
                   ELSE Return(Order_save(r.w, {"status"})))

\* A caller of a transition that has no view in the file (mark_draft,
\* mark_paid): the transition, then the save of the fields it touched.
call_mark_draft(w0) ==
    LET r == mark_draft(w0)
    IN  atomic(w0, IF r.exc # "none" THEN r
                   ELSE Return(Order_save(r.w, {"status", "dereservation_at"})))

call_mark_paid(w0) ==
    LET r == mark_paid(w0)
    IN  atomic(w0, IF r.exc # "none" THEN r
                   ELSE Return(Order_save(r.w, {"status"})))

\* ------------------------------------------------------------ the state
\* A consistent item row of offer i, as a first save stores it.
ItemRow(i, amount, item_status) ==
    [ amount  |-> amount,
      status  |-> item_status,
      price   |-> OfferPrice(i),
      vat     |-> OfferVat(i),
      sum     |-> OfferPrice(i) * amount,
      vat_sum |-> OfferPrice(i) * amount * OfferVat(i) ]

NoItemSave ==
    [ item |-> 0, is_new |-> FALSE, changed |-> FALSE, status |-> "NEW",
      is_price_changed |-> FALSE, is_vat_changed |-> FALSE, add_update_fields |-> {},
      sum |-> 0, vat_sum |-> 0 ]

\* A request: where it is, its operation, the instance it read, and, once it
\* is done, its response, whether the status it read was stale when it ran,
\* and whether it wrote the order row or changed any row.
Idle == [pc |-> "idle", op |-> "none", status |-> "DRAFT", dereservation_at |-> NULL,
         response |-> "none", stale |-> FALSE, wrote |-> FALSE]

\* No export_draft_order call is under way.
NoExport ==
    [ pc |-> "idle", order_items |-> << >>, i |-> 0, row |-> 0, areas |-> << >>,
      item_rows |-> << >>, order_total_price |-> 0, after_items |-> 0,
      total_wo_vat |-> NULL, total |-> NULL ]

\* An order at any point of its life, with at most MaxRows deliveries and
\* offers.  A row that was never reserved has no dereservation time.
InitOrder ==
    /\ now = 0
    /\ \E nd \in 0..MaxRows, no \in 0..MaxRows :
          /\ nd + no <= MaxRows
          /\ offers = 1..no
          /\ deliveries \in [1..nd -> DeliveryStatuses]
    /\ status \in STATUSES
    /\ dereservation_at \in (IF status = "RESERVED" THEN {NULL, now + HOUR} ELSE {NULL})
    /\ \E present \in SUBSET offers :
          \E amount \in [present -> Amounts], item_status \in [present -> ItemStatuses] :
             items = [i \in present |-> ItemRow(i, amount[i], item_status[i])]
    /\ transactions \in 0..MaxTransactions
    /\ last = [ op |-> "init", exc |-> "none", response |-> "none", at |-> now,
                pre |-> DB,
                instance |-> [status |-> status, dereservation_at |-> dereservation_at],
                mutated |-> FALSE, order_fields |-> {},
                save |-> NoItemSave, trip |-> "none" ]
    /\ reqs = [p \in Requests |-> Idle]

Init == InitOrder /\ xw = NoExport

\* How far the order is through DRAFT -> RESERVED -> DRAFT by mark_reserved,
\* item saves and mark_draft, after operation op ended (ok: without exception).
NextTrip(op, ok) ==
    IF op = "save_item"
    THEN (IF last.trip \in {"reserved", "reserved_saved"} THEN "reserved_saved" ELSE "none")
    ELSE IF ~ ok THEN last.trip
    ELSE IF op = "mark_reserved" THEN "reserved"
    ELSE IF op = "mark_draft" /\ last.trip = "reserved" THEN "round_trip"
    ELSE IF op = "mark_draft" /\ last.trip = "reserved_saved" THEN "round_trip_saved"
    ELSE "none"

InstanceOf(w) == [status |-> w.status, dereservation_at |-> w.dereservation_at]

\* The rows of a finished unit of work are committed.
Commit(w) ==
    /\ status' = w.row.status
    /\ dereservation_at' = w.row.dereservation_at
    /\ items' = w.items
    /\ deliveries' = w.deliveries
    /\ transactions' = w.transactions

\* One serial request: the transition ran with outcome m, the request ended
\* with outcome r.
Finish(op, w0, m, r) ==
    /\ Commit(r.w)
    /\ last' = [ op |-> op, exc |-> m.exc, response |-> r.exc, at |-> now,
                 pre |-> DB,
                 instance |-> InstanceOf(m.w),
                 mutated |-> (m.w # w0),
                 order_fields |-> r.w.order_fields, save |-> NoItemSave,
                 trip |-> NextTrip(op, m.exc = "none") ]
    /\ UNCHANGED <<now, offers, reqs, xw>>

Tick ==
    /\ now < MaxTime
    /\ now' = now + 1
    /\ UNCHANGED <<status, dereservation_at, items, deliveries, transactions, offers,
                   last, reqs, xw>>

MarkReserved ==
    LET w0 == get_object(DB)
    IN  Finish("mark_reserved", w0, mark_reserved(w0), OrderViewSet_mark_reserved(w0))

MarkDraft ==
    LET w0 == get_object(DB)
    IN  Finish("mark_draft", w0, mark_draft(w0), call_mark_draft(w0))

Confirm ==
    LET w0 == get_object(DB)
    IN  Finish("make_confirmed", w0, make_confirmed(w0), OrderViewSet_confirm(w0))

MarkPaid ==
    LET w0 == get_object(DB)
    IN  Finish("mark_paid", w0, mark_paid(w0), call_mark_paid(w0))

Cancel ==
    LET w0 == get_object(DB)
    IN  Finish("mark_canceled", w0, mark_canceled(w0), OrderViewSet_cancel(w0))

Destroy ==
    LET w0 == get_object(DB)
    IN  Finish("mark_deleted", w0, mark_deleted(w0), OrderViewSet_destroy(w0))

\* A caller saves the item of offer i after assigning it the given field
\* values; a field assigned a value other than the loaded one is flagged
\* changed, and every field of a new instance is.  last.save.changed tells
\* whether the save created the row or left it other than it was.
ItemSave(i, amount, item_status, price, vat) ==
    LET w0 == get_object(DB)
        is_new == i \notin DOMAIN items
        obj == [ amount |-> amount, status |-> item_status, price |-> price, vat |-> vat,
                 sum |-> IF is_new THEN 0 ELSE items[i].sum,
                 vat_sum |-> IF is_new THEN 0 ELSE items[i].vat_sum ]
        is_price_changed == is_new \/ price # items[i].price
        is_vat_changed == is_new \/ vat # items[i].vat
        saved == OrderItem_save(w0, i, obj, is_price_changed, is_vat_changed, ItemFields)
    IN  /\ Commit(saved.w)
        /\ last' = [ op |-> "save_item", exc |-> "none", response |-> "none",
                     at |-> now,
                     pre |-> [DB EXCEPT !.items = [j \in {} |-> obj]],
                     instance |-> InstanceOf(saved.w),
                     mutated |-> TRUE,
                     trip |-> NextTrip("save_item", TRUE),
                     order_fields |-> saved.w.order_fields,
                     save |-> [ item |-> i, is_new |-> is_new,
                                changed |-> (is_new \/ saved.w.items[i] # items[i]),
                                status |-> item_status,
                                is_price_changed |-> is_price_changed,
                                is_vat_changed |-> is_vat_changed,
                                add_update_fields |-> saved.add_update_fields,
                                sum |-> obj.sum, vat_sum |-> obj.vat_sum ] ]
        /\ UNCHANGED <<now, offers, reqs, xw>>

\* An item is added with the default status, or the amount of an item is
\* edited; the price and the vat are the catalogue's, or left as loaded.
SaveItem ==
    \E i \in offers, amount \in Amounts :
        ItemSave(i, amount,
                 IF i \in DOMAIN items THEN items[i].status ELSE "NEW",
                 IF i \in DOMAIN items THEN items[i].price ELSE OfferPrice(i),
                 IF i \in DOMAIN items THEN items[i].vat ELSE OfferVat(i))

\* An item is saved after any assignment of its amount, status, price and vat.
EditItem ==
    \E i \in offers, amount \in Amounts, item_status \in ItemStatuses,
       price \in Prices, vat \in Vats :
        ItemSave(i, amount, item_status, price, vat)

Next ==
    \/ Tick
    \/ MarkReserved
    \/ MarkDraft
    \/ Confirm
    \/ MarkPaid
    \/ Cancel
    \/ Destroy
    \/ SaveItem

Spec == Init /\ [][Next]_vars

\* An order with a single offer, no delivery and no transaction, its item
\* edited freely.
InitItem == Init /\ offers = {1} /\ DOMAIN deliveries = {} /\ transactions = 0

\* The operations that read or write item rows.
NextItem ==
    \/ Tick
    \/ MarkReserved
    \/ MarkDraft
    \/ Confirm
    \/ EditItem

SpecItem == InitItem /\ [][NextItem]_vars

\* An order as it is created: status DRAFT (the default of the field).
InitNew == Init /\ status = "DRAFT"

SpecNew == InitNew /\ [][Next]_vars

\* ------------------------------------------------- concurrent requests
ApiOps == {"mark_reserved", "confirm", "cancel", "destroy"}

\* The view of an API operation, run on the unit of work w0.
View(op, w0) ==
    CASE op = "mark_reserved" -> OrderViewSet_mark_reserved(w0)
      [] op = "confirm"       -> OrderViewSet_confirm(w0)
      [] op = "cancel"        -> OrderViewSet_cancel(w0)
      [] OTHER                -> OrderViewSet_destroy(w0)

\* The transition a view runs.
Transition(op, w0) ==
    CASE op = "mark_reserved" -> mark_reserved(w0)
      [] op = "confirm"       -> make_confirmed(w0)
      [] op = "cancel"        -> mark_canceled(w0)
      [] OTHER                -> mark_deleted(w0)

TransitionOf(op) ==
    CASE op = "mark_reserved" -> "mark_reserved"
      [] op = "confirm"       -> "make_confirmed"
      [] op = "cancel"        -> "mark_canceled"
      [] OTHER                -> "mark_deleted"

\* get_object of request p: the order instance is read, no row is locked.
Begin(p, op) ==
    /\ reqs[p].pc = "idle"
    /\ reqs' = [reqs EXCEPT ![p] =
                  [ pc |-> "loaded", op |-> op, status |-> status,
                    dereservation_at |-> dereservation_at, response |-> "none",
                    stale |-> FALSE, wrote |-> FALSE ]]
    /\ UNCHANGED <<now, status, dereservation_at, items, deliveries, transactions,
                   offers, last, xw>>

\* The rest of request p: the transition runs on the instance read by Begin
\* and on the rows as they are now, and the unit of work is committed.
Exec(p) ==
    /\ reqs[p].pc = "loaded"
    /\ LET w0 == World(DB, reqs[p].status, reqs[p].dereservation_at)
           m == Transition(reqs[p].op, w0)
           r == View(reqs[p].op, w0)
       IN  /\ Commit(r.w)
           /\ last' = [ op |-> TransitionOf(reqs[p].op), exc |-> m.exc,
                        response |-> r.exc, at |-> now, pre |-> DB,
                        instance |-> InstanceOf(m.w),
                        mutated |-> (m.w # w0),
                        order_fields |-> r.w.order_fields, save |-> NoItemSave,
                        trip |-> NextTrip(TransitionOf(reqs[p].op), m.exc = "none") ]
           /\ reqs' = [reqs EXCEPT ![p] =
                         [@ EXCEPT !.pc = "done", !.response = r.exc,
                                   !.stale = (status # reqs[p].status),
                                   !.wrote = (r.w.order_fields # {} \/ RowsOf(r.w) # DB)]]
    /\ UNCHANGED <<now, offers, xw>>

BeginRequest == \E p \in Requests, op \in ApiOps : Begin(p, op)

ExecRequest == \E p \in Requests : Exec(p)

InitConc == Init /\ offers = {1} /\ DOMAIN deliveries = {1}

NextConc == BeginRequest \/ ExecRequest

SpecConc == InitConc /\ [][NextConc]_vars

\* ------------------------------------------------- FreshLogicExporter
\* Money is counted in whole units of its last decimal place: a price in
\* 0.01, an amount in 0.001, price * amount in 0.00001.

\* Decimal(x).quantize(Decimal(".001")) of x given in 0.00001, in 0.001:
\* the decimal context rounds half to even.
quantize_001(x) ==
    LET q == x \div 100
        r == x % 100
    IN  IF r > 50 \/ (r = 50 /\ q % 2 = 1) THEN q + 1 ELSE q

\* The k below 1000 ending in 5 for which float(k / 1000) formats with
\* "{0:.2f}" to the upper hundredth: the double nearest to k / 1000 lies
\* above it, or is exact with an odd hundredth below (375, 875).
ROUNDED_UP_TIES ==
    { 5, 25, 35, 55, 65, 85, 95, 115, 135, 165, 195, 225, 255, 265, 275, 315, 325,
      335, 375, 385, 395, 405, 445, 455, 465, 505, 515, 525, 535, 545, 555, 635,
      645, 655, 665, 675, 685, 755, 765, 775, 785, 795, 805, 875, 885, 895, 905,
      915, 925, 935 }

\* "{0:.2f}".format(float(d)) of the decimal d given in 0.001 (below 1.000),
\* in 0.01.
format_2f(k) ==
    LET c == k \div 10
        r == k % 10
    IN  IF r > 5 \/ (r = 5 /\ k \in ROUNDED_UP_TIES) THEN c + 1 ELSE c

\* xw.next_print_area(from_row=..., size=PAGE_SIZE): the print area is
\* recorded with the number of items written before it.
next_print_area(x, from_row) ==
    [x EXCEPT !.areas = Append(@, [from_row |-> from_row, after_item |-> x.i])]

\* xw.page_num: the print areas opened so far.
page_num(x) == Len(x.areas)

\* math.ceil(last_row / PAGE_SIZE)
ceil_pages(last_row) == (last_row + PAGE_SIZE - 1) \div PAGE_SIZE

\* export_draft_order up to the loop: the header cells, the first print
\* area, row = TABLE_ROW and the totals at 0.
ExportBegin ==
    /\ xw.pc = "idle"
    /\ xw' = [next_print_area(xw, 1) EXCEPT
                 !.pc = "loop", !.i = 0, !.row = TABLE_ROW, !.order_total_price = 0]
    /\ UNCHANGED <<now, status, dereservation_at, items, deliveries, transactions,
                   offers, last, reqs>>

\* The loop body whose page test counts the items written, not the sheet row.
export_item_by_count(x) ==
    LET order_item == x.order_items[x.i + 1]
        total == order_item.price_for_transport_package * order_item.amount
        x1 == [x EXCEPT !.i = @ + 1,
                        !.order_total_price = @ + total,
                        !.item_rows = Append(@, x.row),
                        !.row = @ + 1]
    IN  IF x1.i % PAGE_SIZE = 0
        THEN [next_print_area(x1, x1.row + 1) EXCEPT !.row = @ + 2]
        ELSE x1

\* The loop body that leaves row where it is.
export_item_same_row(x) ==
    LET order_item == x.order_items[x.i + 1]
        total == order_item.price_for_transport_package * order_item.amount
        x1 == [x EXCEPT !.i = @ + 1,
                        !.order_total_price = @ + total,
                        !.item_rows = Append(@, x.row)]
    IN  IF x1.row % PAGE_SIZE = 0
        THEN [next_print_area(x1, x1.row + 1) EXCEPT !.row = @ + 2]
        ELSE x1

\* One pass of the loop over order_items: the totals grow, the item is
\* written at row, row moves on, and a row that is a multiple of PAGE_SIZE
\* starts a print area at the next row and skips two rows.
export_item(x) ==
    LET order_item == x.order_items[x.i + 1]
        total == order_item.price_for_transport_package * order_item.amount
        x1 == [x EXCEPT !.i = @ + 1,
                        !.order_total_price = @ + total,
                        !.item_rows = Append(@, x.row),
                        !.row = @ + 1]
    IN  IF x1.row % PAGE_SIZE = 0
        THEN [next_print_area(x1, x1.row + 1) EXCEPT !.row = @ + 2]
        ELSE x1

ExportItem ==
    /\ xw.pc = "loop"
    /\ xw.i < Len(xw.order_items)
    /\ xw' = export_item(xw)
    /\ UNCHANGED <<now, status, dereservation_at, items, deliveries, transactions,
                   offers, last, reqs>>

\* export_draft_order after the loop: the summary rows, the closing text
\* and the last print area.  The VAT row is left out: product.vat is not in
\* the file.
export_summary(x) ==
    LET after_items == x.row
        order_sum == quantize_001(x.order_total_price)
        last_row == after_items + ENDING_ROW_PADDING
        current_page == ceil_pages(last_row)
        x1 == [x EXCEPT !.pc = "done",
                        !.after_items = after_items,
                        !.total_wo_vat = format_2f(order_sum),
                        !.total = format_2f(order_sum)]
    IN  IF current_page > page_num(x1)
        THEN next_print_area(x1, after_items + 2)
        ELSE x1

ExportSummary ==
    /\ xw.pc = "loop"
    /\ xw.i = Len(xw.order_items)
    /\ xw' = export_summary(xw)
    /\ UNCHANGED <<now, status, dereservation_at, items, deliveries, transactions,
                   offers, last, reqs>>

\* What OrderItem.objects.filter(order=order) gives the exporter: the
\* offer's price for a transport package and the item's amount.
PlainItem == [price_for_transport_package |-> 1, amount |-> 1000]

PricedItems ==
    [price_for_transport_package : 1..MaxExportPrice, amount : 0..MaxExportAmount]

\* Orders of up to MaxItems equal items, and orders of up to MaxPricedItems
\* items of any price and amount.
ExportOrders ==
    {[j \in 1..n |-> PlainItem] : n \in 0..MaxItems}
    \cup UNION {[1..n -> PricedItems] : n \in 0..MaxPricedItems}

\* A DRAFT order is exported; its items are held by xw.order_items.
InitExport ==
    /\ InitOrder
    /\ status = "DRAFT"
    /\ offers = {}
    /\ DOMAIN deliveries = {}
    /\ transactions = 0
    /\ \E order_items \in ExportOrders : xw = [NoExport EXCEPT !.order_items = order_items]

NextExport == ExportBegin \/ ExportItem \/ ExportSummary

SpecExport == InitExport /\ [][NextExport]_vars

\* =============================================================== claims
\* last.op is a named transition that ran on the order as last.pre holds it.
Ran(t) == last.op = t

AllDeliveries(ds, delivery_status) == \A d \in DOMAIN ds : ds[d] = delivery_status

Blocked(ds) == \E d \in DOMAIN ds : ds[d] \in {"FACT", "SHIPPED"}

ZeroItems(its) == {i \in DOMAIN its : its[i].amount = 0}

\* C1: a named transition invoked on an order whose status is not in the
\* transition's declared source set raises TransitionNotAllowed and mutates
\* nothing: the instance, the order row, the items, the deliveries and the
\* transactions are what they were.
C1_NotAllowedNoMutation ==
    \A t \in TransitionNames :
        (Ran(t) /\ last.pre.status \notin SOURCE[t])
        => /\ last.exc = "TransitionNotAllowed"
           /\ ~ last.mutated
           /\ last.instance = [ status |-> last.pre.status,
                                dereservation_at |-> last.pre.dereservation_at ]
           /\ DB = last.pre

\* mark_draft was refused on a PAID order (PAID -> DRAFT is not in the table).
C1_Witness ==
    /\ Ran("mark_draft")
    /\ last.exc = "TransitionNotAllowed"
    /\ last.pre.status = "PAID"
    /\ DOMAIN items # {}

\* C2: mark_canceled on a PAID, CONFIRMED or IN_PROGRESS order raises
\* TransitionNotAllowed exactly when a delivery of the order is FACT or
\* SHIPPED; otherwise it succeeds, the order becomes CANCELED, no transaction
\* of the order is left and every delivery of the order is CANCELED.
C2_CancelGuard ==
    (Ran("mark_canceled") /\ last.pre.status \in {"PAID", "CONFIRMED", "IN_PROGRESS"})
    => /\ (last.exc = "TransitionNotAllowed") <=> Blocked(last.pre.deliveries)
       /\ ~ Blocked(last.pre.deliveries) =>
            /\ last.exc = "none"
            /\ last.instance.status = "CANCELED"
            /\ status = "CANCELED"
            /\ transactions = 0
            /\ DOMAIN deliveries = DOMAIN last.pre.deliveries
            /\ AllDeliveries(deliveries, "CANCELED")

\* An IN_PROGRESS order with a transaction and a delivery was canceled.
C2_Witness ==
    /\ Ran("mark_canceled")
    /\ last.exc = "none"
    /\ last.pre.status = "IN_PROGRESS"
    /\ last.pre.transactions > 0
    /\ \E d \in DOMAIN last.pre.deliveries : last.pre.deliveries[d] # "CANCELED"
    /\ status = "CANCELED"

\* C3: the cancel action is all or nothing: either it ends without error and
\* the order row is CANCELED, no transaction is left and every delivery is
\* CANCELED, or it ends in a validation error and the committed rows are
\* exactly what they were.
C3_CancelAllOrNothing ==
    Ran("mark_canceled")
    => \/ /\ last.response = "none"
          /\ status = "CANCELED"
          /\ transactions = 0
          /\ DOMAIN deliveries = DOMAIN last.pre.deliveries
          /\ AllDeliveries(deliveries, "CANCELED")
       \/ /\ last.response = "ValidationError"
          /\ DB = last.pre

\* A cancel of a CONFIRMED order with a transaction and a shipped delivery
\* ended in a validation error.
C3_Witness ==
    /\ Ran("mark_canceled")
    /\ last.response = "ValidationError"
    /\ last.pre.status = "CONFIRMED"
    /\ transactions > 0
    /\ \E d \in DOMAIN deliveries : deliveries[d] = "SHIPPED"
    /\ \E d \in DOMAIN deliveries : deliveries[d] \notin {"SHIPPED", "FACT", "CANCELED"}

\* C4: mark_reserved on a DRAFT order succeeds; afterwards the order is
\* RESERVED, exactly the items with amount 0 are gone, every remaining item
\* has status RESERVE and is otherwise unchanged, and dereservation_at is the
\* time of the transition plus one hour.
C4_MarkReserved ==
    (Ran("mark_reserved") /\ last.pre.status = "DRAFT")
    => /\ last.exc = "none"
       /\ last.instance = [status |-> "RESERVED", dereservation_at |-> last.at + HOUR]
       /\ status = "RESERVED"
       /\ dereservation_at = last.at + HOUR
       /\ DOMAIN items = DOMAIN last.pre.items \ ZeroItems(last.pre.items)
       /\ \A i \in DOMAIN items :
             items[i] = [last.pre.items[i] EXCEPT !.status = "RESERVE"]

\* mark_reserved deleted a zero-amount item and set an ACCEPT item to RESERVE.
C4_Witness ==
    /\ Ran("mark_reserved")
    /\ last.exc = "none"
    /\ ZeroItems(last.pre.items) # {}
    /\ \E i \in DOMAIN items : last.pre.items[i].status = "ACCEPT"
    /\ status = "RESERVED"
    /\ now > last.at

\* C5: when mark_draft ends a DRAFT -> RESERVED -> DRAFT round trip (item
\* saves in between or not), the order instance is DRAFT with dereservation_at
\* null and every item of the order has status NEW.
C5_RoundTrip ==
    (/\ Ran("mark_draft")
     /\ last.exc = "none"
     /\ last.trip \in {"round_trip", "round_trip_saved"})
    => /\ last.instance = [status |-> "DRAFT", dereservation_at |-> NULL]
       /\ \A i \in DOMAIN items : items[i].status = "NEW"

\* A round trip with an item save in between ended, the order holding items.
C5_Witness ==
    /\ Ran("mark_draft")
    /\ last.trip = "round_trip_saved"
    /\ DOMAIN items # {}

\* C6: dereservation_at is cleared on leaving RESERVED (by mark_draft,
\* make_confirmed or mark_deleted), so an order that is not RESERVED has no
\* dereservation time.
C6_ClearedOutsideReserved ==
    status # "RESERVED" => dereservation_at = NULL

\* C7: a request that runs after the status it read has been changed by a
\* concurrent request finds its precondition stale: it fails and writes
\* no row.
C7_StaleRequestFails ==
    \A p \in Requests :
        (reqs[p].pc = "done" /\ reqs[p].stale)
        => (reqs[p].response # "none" /\ ~ reqs[p].wrote)

\* C8: the save of a loaded item whose price was changed and whose vat was
\* not recomputes sum and marks sum alone for persistence; vat_sum keeps the
\* loaded value.
C8_PriceOnlyChange ==
    (/\ last.op = "save_item"
     /\ ~ last.save.is_new
     /\ last.save.is_price_changed
     /\ ~ last.save.is_vat_changed)
    => LET item == items[last.save.item]
       IN  /\ item.sum = set_sum(item)
           /\ last.save.add_update_fields = {"sum"}
           /\ item.vat_sum = last.save.vat_sum

\* Such a save changed the sum and left a vat_sum that is not the one the
\* new sum gives.
C8_Witness ==
    /\ last.op = "save_item"
    /\ ~ last.save.is_new
    /\ last.save.is_price_changed
    /\ ~ last.save.is_vat_changed
    /\ items[last.save.item].sum # last.save.sum
    /\ items[last.save.item].vat_sum # set_vat_sum(items[last.save.item])

\* C9: make_confirmed on a DRAFT or RESERVED order succeeds; afterwards the
\* order is CONFIRMED, exactly the items that had amount 0 are gone, and every
\* item left has the non-zero amount it had.
C9_ConfirmDeletesZero ==
    (Ran("make_confirmed") /\ last.pre.status \in {"DRAFT", "RESERVED"})
    => /\ last.exc = "none"
       /\ last.instance.status = "CONFIRMED"
       /\ status = "CONFIRMED"
       /\ DOMAIN items = DOMAIN last.pre.items \ ZeroItems(last.pre.items)
       /\ \A i \in DOMAIN items :
             items[i].amount # 0 /\ items[i].amount = last.pre.items[i].amount

\* make_confirmed of a RESERVED order deleted a zero-amount item and kept
\* another one.
C9_Witness ==
    /\ Ran("make_confirmed")
    /\ last.exc = "none"
    /\ last.pre.status = "RESERVED"
    /\ ZeroItems(last.pre.items) # {}
    /\ DOMAIN items # {}

\* C10: mark_paid on a CONFIRMED order succeeds; afterwards the order
\* instance is PAID, every delivery that was not CANCELED is PAID and every
\* delivery that was CANCELED is CANCELED.
C10_MarkPaid ==
    (Ran("mark_paid") /\ last.pre.status = "CONFIRMED")
    => /\ last.exc = "none"
       /\ last.instance.status = "PAID"
       /\ DOMAIN deliveries = DOMAIN last.pre.deliveries
       /\ \A d \in DOMAIN deliveries :
             deliveries[d] = IF last.pre.deliveries[d] = "CANCELED"
                             THEN "CANCELED" ELSE "PAID"

\* mark_paid met a CANCELED delivery and a SHIPPED one.
C10_Witness ==
    /\ Ran("mark_paid")
    /\ last.exc = "none"
    /\ \E d \in DOMAIN deliveries : last.pre.deliveries[d] = "CANCELED"
    /\ \E d \in DOMAIN deliveries :
          last.pre.deliveries[d] = "SHIPPED" /\ deliveries[d] = "PAID"

\* C11: the destroy action succeeds exactly on a DRAFT or RESERVED order: it
\* then answers without error, the order row is DELETED and every delivery
\* of the order is DELETED; on any other status it answers with a validation
\* error and the order status and the deliveries are what they were.
C11_Destroy ==
    Ran("mark_deleted")
    => IF last.pre.status \in {"DRAFT", "RESERVED"}
       THEN /\ last.response = "none"
            /\ status = "DELETED"
            /\ DOMAIN deliveries = DOMAIN last.pre.deliveries
            /\ AllDeliveries(deliveries, "DELETED")
       ELSE /\ last.response = "ValidationError"
            /\ status = last.pre.status
            /\ deliveries = last.pre.deliveries

\* destroy of a RESERVED order set a shipped delivery to DELETED.
C11_Witness ==
    /\ Ran("mark_deleted")
    /\ last.response = "none"
    /\ last.pre.status = "RESERVED"
    /\ \E d \in DOMAIN deliveries : last.pre.deliveries[d] = "SHIPPED"
    /\ status = "DELETED"

\* An item save ran on an order whose dereservation timer was active.
TimerActive == last.pre.status = "RESERVED" /\ last.pre.dereservation_at # NULL

\* The order row as an item save found it is the order row now.
OrderRowUntouched ==
    /\ last.order_fields = {}
    /\ status = last.pre.status
    /\ dereservation_at = last.pre.dereservation_at

\* C12 as claimed: an item save under a RESERVED order with a dereservation
\* time sets the order's dereservation_at to the save time plus one hour and
\* the order fields it writes are exactly {dereservation_at}; under any other
\* order the order is not written.
C12_WritesTimerOnly ==
    last.op = "save_item"
    => IF TimerActive
       THEN /\ dereservation_at = last.at + HOUR
            /\ status = last.pre.status
            /\ last.order_fields = {"dereservation_at"}
       ELSE OrderRowUntouched

\* C12 as the code has it: the order fields written are dereservation_at and
\* the status_updated_at that Order.save adds to any update_fields it is
\* given; the rest is as claimed.
C12_WritesTimerAndMonitor ==
    last.op = "save_item"
    => IF TimerActive
       THEN /\ dereservation_at = last.at + HOUR
            /\ status = last.pre.status
            /\ last.order_fields = {"dereservation_at", "status_updated_at"}
       ELSE OrderRowUntouched

\* An item save an hour after the reservation moved the dereservation time.
C12_Witness ==
    /\ last.op = "save_item"
    /\ TimerActive
    /\ dereservation_at = last.at + HOUR
    /\ dereservation_at # last.pre.dereservation_at

\* C13: an item save that creates or changes an item happens only under an
\* order in DRAFT or RESERVED.
C13_EditableOnly ==
    (last.op = "save_item" /\ last.exc = "none" /\ last.save.changed)
    => last.pre.status \in EDITABLE_STATUSES

\* The sum of price * amount over the items, in 0.00001.
RECURSIVE SumOfItems(_)
SumOfItems(order_items) ==
    IF order_items = << >> THEN 0
    ELSE LET order_item == Head(order_items)
         IN  order_item.price_for_transport_package * order_item.amount
             + SumOfItems(Tail(order_items))

\* c hundredths is t hundred-thousandths rounded to 2 decimals (a half
\* rounded either way).
RoundedOnce(c, t) ==
    LET d == 1000 * c - t
    IN  -500 <= d /\ d <= 500

\* C14: the total excluding VAT that the export shows is the sum of
\* price * amount over the items of the order, rounded once to 2 decimals.
C14_TotalRoundedOnce ==
    xw.pc = "done" => RoundedOnce(xw.total_wo_vat, SumOfItems(xw.order_items))

\* C15: the export of an order of more than PAGE_SIZE items opens at least
\* two print areas, the one opened before the loop included.
C15_TwoPrintAreas ==
    (xw.pc = "done" /\ Len(xw.order_items) > PAGE_SIZE) => Len(xw.areas) >= 2

\* An order of PAGE_SIZE + 1 items was exported on two print areas.
C15_Witness ==
    /\ xw.pc = "done"
    /\ Len(xw.order_items) = PAGE_SIZE + 1
    /\ Len(xw.areas) = 2

\* The print areas the loop has opened, the first area left aside, while the
\* loop runs (the summary has opened none yet).
LoopAreas == [k \in 1..(Len(xw.areas) - 1) |-> xw.areas[k + 1]]

\* C16 as claimed: after i items the loop has opened i div PAGE_SIZE print
\* areas, the k-th right after item PAGE_SIZE * k.
C16_AreaEveryPageSizeItems ==
    xw.pc = "loop"
    => /\ Len(LoopAreas) = xw.i \div PAGE_SIZE
       /\ \A k \in DOMAIN LoopAreas : LoopAreas[k].after_item = PAGE_SIZE * k

\* C16 as the code has it: the loop opens a print area when the next sheet
\* row is a multiple of PAGE_SIZE, that is after item PAGE_SIZE - TABLE_ROW
\* and then after every PAGE_SIZE - 2 items; the k-th starts at row
\* PAGE_SIZE * k + 1, the item before it is on row PAGE_SIZE * k - 1 and the
\* item after it on row PAGE_SIZE * k + 2.
C16_AreaEveryPageSizeRows ==
    xw.pc = "loop"
    => LET first == PAGE_SIZE - TABLE_ROW
           period == PAGE_SIZE - 2
       IN  /\ Len(LoopAreas) =
                 IF xw.i < first THEN 0 ELSE 1 + (xw.i - first) \div period
           /\ \A k \in DOMAIN LoopAreas :
                 LET area == LoopAreas[k]
                 IN  /\ area.after_item = first + period * (k - 1)
                     /\ area.from_row = PAGE_SIZE * k + 1
                     /\ xw.item_rows[area.after_item] = PAGE_SIZE * k - 1
                     /\ area.after_item < xw.i
                        => xw.item_rows[area.after_item + 1] = PAGE_SIZE * k + 2

\* The loop opened its second print area and wrote an item after it.
C16_Witness ==
    /\ xw.pc = "loop"
    /\ Len(LoopAreas) = 2
    /\ xw.i > LoopAreas[2].after_item

\* C18: a new item saved under a RESERVED order is stored with status
\* RESERVE; the save of a stored item, and any item save under an order that
\* is not RESERVED, stores the status the caller set.
C18_ReserveOnFirstSave ==
    last.op = "save_item"
    => items[last.save.item].status =
          IF last.save.is_new /\ last.pre.status = "RESERVED"
          THEN "RESERVE" ELSE last.save.status

\* A new item given status ACCEPT was stored as RESERVE under a RESERVED order.
C18_Witness ==
    /\ last.op = "save_item"
    /\ last.save.is_new
    /\ last.pre.status = "RESERVED"
    /\ last.save.status = "ACCEPT"
    /\ items[last.save.item].status = "RESERVE"

\* C19: an operation that finds the order outside DRAFT and RESERVED leaves
\* it outside DRAFT and RESERVED, and one that finds it CANCELED or DELETED
\* leaves its status; a transition called on a CANCELED or DELETED order
\* raises TransitionNotAllowed.
C19_Monotone ==
    /\ last.pre.status \notin EDITABLE_STATUSES => status \notin EDITABLE_STATUSES
    /\ last.pre.status \in {"CANCELED", "DELETED"}
       => /\ status = last.pre.status
          /\ last.op \in TransitionNames => last.exc = "TransitionNotAllowed"

\* mark_draft was refused on an order that had been deleted.
C19_Witness ==
    /\ Ran("mark_draft")
    /\ last.pre.status = "DELETED"
    /\ last.exc = "TransitionNotAllowed"
    /\ status = "DELETED"

\* C20: no sequence of transitions and item saves takes an order created
\* in DRAFT to IN_PROGRESS, in the row or in an instance.
C20_NoInProgress ==
    status # "IN_PROGRESS" /\ last.instance.status # "IN_PROGRESS"

\* An order created in DRAFT was reserved, confirmed and paid, and then
\* canceled.
C20_Witness ==
    /\ Ran("mark_canceled")
    /\ last.pre.status = "PAID"
    /\ status = "CANCELED"

\* C21: the save of a loaded item whose vat was changed and whose price was
\* not recomputes neither sum nor vat_sum and marks no field for
\* persistence; in any item save vat_sum is marked only when both the price
\* and the vat changed.
C21_VatOnlyChange ==
    last.op = "save_item"
    => /\ ("vat_sum" \in last.save.add_update_fields)
          <=> (last.save.is_price_changed /\ last.save.is_vat_changed)
       /\ (~ last.save.is_new /\ ~ last.save.is_price_changed /\ last.save.is_vat_changed)
          => LET item == items[last.save.item]
             IN  /\ item.sum = last.save.sum
                 /\ item.vat_sum = last.save.vat_sum
                 /\ last.save.add_update_fields = {}

\* The vat of an item went to 0 at the same price and the item kept its
\* positive vat_sum.
C21_Witness ==
    /\ last.op = "save_item"
    /\ ~ last.save.is_new
    /\ ~ last.save.is_price_changed
    /\ last.save.is_vat_changed
    /\ items[last.save.item].vat = 0
    /\ items[last.save.item].vat_sum > 0
    /\ items[last.save.item].vat_sum = last.save.vat_sum

====
